---- MODULE Spec2Model ----
(***************************************************************************)
(* gobotlite: an IRC bot that forwards dot-commands and URLs to two HTTP   *)
(* (Lambda) endpoints.  The model covers main(), the per-network goroutine *)
(* with its event callbacks, connectWithRetry, and the dispatched          *)
(* handleCommand / handleURL goroutines with fetchLambdaCommand /          *)
(* fetchLambdaTitle.                                                       *)
(*                                                                         *)
(* Two revisions of main() are in the sources: one on go-ircevent, which   *)
(* ends the network goroutine in conn.Loop(), and one on fluffle/goirc,    *)
(* where the goroutine returns right after connectWithRetry.  The variable *)
(* lib selects the revision; everything else is shared by both.            *)
(*                                                                         *)
(* Strings whose characters the code inspects (message texts, channel      *)
(* names, URLs) are sequences of one-character strings.  Durations are in  *)
(* seconds (time.Duration is an int64 of nanoseconds; the largest value    *)
(* connectWithRetry ever computes is 2 * 300 s, far below 2^63 ns).        *)
(*                                                                         *)
(* Three specifications share the actions: Spec (the whole system),        *)
(* SpecRetry (connectWithRetry under many failures) and SpecLine (one      *)
(* network, every kind of PRIVMSG line).  SpecLine keeps a history: the    *)
(* lines delivered (hist) and, in each task, the outcome of its backend    *)
(* call, what the call returned and what the task sent.  The other         *)
(* specifications keep none (hist.on is FALSE and the fields stay at their *)
(* placeholders), so the history does not multiply their states.           *)
(***************************************************************************)
EXTENDS Integers, Sequences, FiniteSets, TLC

VARIABLES
    lib,        \* "ircevent" | "goirc": which revision of main() runs
    config,     \* the Config value read at startup
    proc,       \* "running" | "fatal" (os.Exit(1)) | "exited" (main returned) | "crashed" (panic)
    mainpc,     \* position of main(): "validate" | "spawn" | "wait" | "returned"
    netpc,      \* per network goroutine: "idle" | "setup" | "connect" | "sleep" | "returned" | "loop" | "done"
    handlers,   \* per network: the event tags a callback is registered for
    addr,       \* per network: the server address passed to connectWithRetry
    backoff,    \* per network: connectWithRetry's local backoff, seconds (0 outside the call)
    fails,      \* per network: failed attempts of the current connectWithRetry call
    lastSleep,  \* per network: the delay of the last time.Sleep of the call (0: none yet)
    cwrRet,     \* per network: what connectWithRetry returned: "none" | "nil" | "err"
    err,        \* main's variable err, which every network goroutine assigns: "nil" | "err"
    connUp,     \* per network: the transport is connected
    out,        \* per network: the messages sent on the connection, in order
    tasks,      \* the dispatched goroutines (go handleCommand / go handleURL), in spawn order
    nev,        \* number of events delivered so far (bounds the run)
    ndisc,      \* number of transport errors so far (bounds the run)
    hist        \* history: whether the run keeps one, and the PRIVMSG lines and control events delivered so far

vars == <<lib, config, proc, mainpc, netpc, handlers, addr, backoff, fails,
          lastSleep, cwrRet, err, connUp, out, tasks, nev, ndisc, hist>>

netVars == <<netpc, handlers, addr, backoff, fails, lastSleep, cwrRet>>

----------------------------------------------------------------------------
(* Bounds of the model *)

MaxEvents == 2      \* events delivered in a run with one network
MaxMultiEvents == 1 \* events delivered in a run with several networks
MaxDisconnects == 1 \* transport errors on established connections in one run
MaxFails == 1       \* failed connect attempts per call in the system specification
MaxRetryFails == 11 \* failed connect attempts per call in the retry specification
MaxLineEvents == 1  \* lines delivered in a run of the line specification
MaxCtlEvents == 3   \* events delivered in a run of the control specification
MaxPairLines == 3   \* lines delivered in a run of the pair specification
MaxIsoEvents == 2   \* events delivered in a run of the two-network specification

Networks == {"n1", "n2"}

----------------------------------------------------------------------------
(* Strings *)

Min(a, b) == IF a < b THEN a ELSE b

HasPrefix(s, p) == Len(s) >= Len(p) /\ SubSeq(s, 1, Len(p)) = p

IsSpace(c) == c = " "

\* strings.Fields: the maximal runs of non-space characters, in order
FieldStarts(s) == {i \in 1..Len(s) : ~IsSpace(s[i]) /\ (i = 1 \/ IsSpace(s[i - 1]))}

FieldEnd(s, i) ==
    CHOOSE j \in i..Len(s) :
        /\ \A k \in i..j : ~IsSpace(s[k])
        /\ (j = Len(s) \/ IsSpace(s[j + 1]))

Fields(s) ==
    LET starts == FieldStarts(s)
        nth(k) == CHOOSE i \in starts : Cardinality({j \in starts : j < i}) = k - 1
    IN  [k \in 1..Cardinality(starts) |-> SubSeq(s, nth(k), FieldEnd(s, nth(k)))]

\* strings.Join(elems, " ")
RECURSIVE JoinSp(_)
JoinSp(ws) ==
    IF ws = <<>> THEN <<>>
    ELSE IF Len(ws) = 1 THEN ws[1]
    ELSE ws[1] \o <<" ">> \o JoinSp(Tail(ws))

\* index of the first occurrence of character c in s, 0 when absent
RECURSIVE IndexFrom(_, _, _)
IndexFrom(s, c, i) ==
    IF i > Len(s) THEN 0 ELSE IF s[i] = c THEN i ELSE IndexFrom(s, c, i + 1)

Index(s, c) == IndexFrom(s, c, 1)

----------------------------------------------------------------------------
(* Configuration *)

Nickname == "bot"
ExcludedNick == "Sinkko"
DefaultPort == 6667

NetA == [Server |-> "irc.a", Channels |-> << <<"#", "a">>, <<"b">> >>, Port |-> 0]
NetB == [Server |-> "irc.b", Channels |-> << <<"c">> >>, Port |-> 6697]
NetNoChannels == [Server |-> "irc.b", Channels |-> <<>>, Port |-> 0]

\* the endpoint URLs (LambdaCommand.Endpoint, LambdaTitle.Endpoint), as characters
EndpointCommand == <<"h", "t", "t", "p", ":", "/", "/", "c">>
EndpointTitle == <<"h", "t", "t", "p", ":", "/", "/", "t">>
\* a non-empty endpoint that url.Parse rejects ("missing protocol scheme")
EndpointUnparsable == <<":">>

GoodConfig ==
    [Nickname |-> Nickname, LambdaCommand |-> EndpointCommand,
     LambdaTitle |-> EndpointTitle,
     Networks |-> [n \in Networks |-> IF n = "n1" THEN NetA ELSE NetB]]

\* The configurations a run may start with: a valid one with two networks, a
\* valid one with no network, and one for each defect Validate looks for.
Configs ==
    { GoodConfig,
      [GoodConfig EXCEPT !.Networks = [n \in {"n1"} |-> NetA]],
      [GoodConfig EXCEPT !.Networks = [n \in {} |-> NetA]],
      [GoodConfig EXCEPT !.Nickname = ""],
      [GoodConfig EXCEPT !.LambdaCommand = <<>>],
      [GoodConfig EXCEPT !.LambdaTitle = <<>>],
      [GoodConfig EXCEPT !.Networks = [n \in Networks |-> IF n = "n1" THEN NetA ELSE NetNoChannels]],
      [GoodConfig EXCEPT !.Networks = [n \in {"n1"} |-> [NetA EXCEPT !.Server = ""]]] }

Declared(c) == DOMAIN c.Networks

\* mutant: the channel lists are not looked at
ValidateNoChannelCheck(c) ==
    /\ c.Nickname # ""
    /\ c.LambdaCommand # <<>>
    /\ c.LambdaTitle # <<>>
    /\ \A n \in Declared(c) : c.Networks[n].Server # ""

\* Config.Validate: TRUE when it returns nil
Validate(c) ==
    /\ c.Nickname # ""
    /\ c.LambdaCommand # <<>>
    /\ c.LambdaTitle # <<>>
    /\ \A n \in Declared(c) :
          /\ c.Networks[n].Server # ""
          /\ Len(c.Networks[n].Channels) # 0

----------------------------------------------------------------------------
(* connectWithRetry *)

Second == 1
maxBackoff == 300

\* mutant: the doubling without the ceiling
NextBackoffUncapped(b) == b * 2

\* backoff *= 2; if backoff > maxBackoff { backoff = maxBackoff }
NextBackoff(b) == IF b * 2 > maxBackoff THEN maxBackoff ELSE b * 2

\* mutant: a retry limit, the error of the third failed attempt is returned
GiveUpAfterThree(k) == k >= 3

\* The loop `for { ... }` has no exit but the return after a successful attempt:
\* no number k of failed attempts makes it return the error.
GiveUp(k) == FALSE

----------------------------------------------------------------------------
(* main() *)

NoHistory == [on |-> FALSE, mode |-> "none", lines |-> <<>>, events |-> <<>>]

\* everything but the configuration read and the history
InitProcess ==
    /\ lib \in {"ircevent", "goirc"}
    /\ proc = "running"
    /\ mainpc = "validate"
    /\ netpc = [n \in Networks |-> "idle"]
    /\ handlers = [n \in Networks |-> {}]
    /\ addr = [n \in Networks |-> <<"", 0>>]
    /\ backoff = [n \in Networks |-> 0]
    /\ fails = [n \in Networks |-> 0]
    /\ lastSleep = [n \in Networks |-> 0]
    /\ cwrRet = [n \in Networks |-> "none"]
    /\ err = "nil"
    /\ connUp = [n \in Networks |-> FALSE]
    /\ out = [n \in Networks |-> <<>>]
    /\ tasks = <<>>
    /\ nev = 0
    /\ ndisc = 0

Init ==
    /\ config \in Configs
    /\ hist = NoHistory
    /\ InitProcess

\* err = config.Validate(); if err != nil { os.Exit(1) }
MainValidate ==
    /\ proc = "running" /\ mainpc = "validate"
    /\ IF Validate(config)
       THEN mainpc' = "spawn" /\ proc' = proc /\ err' = "nil"
       ELSE mainpc' = mainpc /\ proc' = "fatal" /\ err' = "err"
    /\ UNCHANGED <<hist, lib, config, netVars, connUp, out, tasks, nev, ndisc>>

\* for _, network := range config.Networks { wg.Add(1); go func(network Network) {...}(network) }
MainSpawn ==
    /\ proc = "running" /\ mainpc = "spawn"
    /\ mainpc' = "wait"
    /\ netpc' = [n \in Networks |-> IF n \in Declared(config) THEN "setup" ELSE netpc[n]]
    /\ UNCHANGED <<hist, err, lib, config, proc, handlers, addr, backoff, fails, lastSleep,
                   cwrRet, connUp, out, tasks, nev, ndisc>>

\* mutant: the wait group counts one more than the network goroutines started
\* (a wg.Add(1) outside the loop), so that with no network the wait never returns
MainWaitCountsOneMore ==
    /\ proc = "running" /\ mainpc = "wait"
    /\ Declared(config) # {}
    /\ \A n \in Declared(config) : netpc[n] = "done"
    /\ mainpc' = "returned"
    /\ proc' = "exited"
    /\ UNCHANGED <<hist, err, lib, config, netVars, connUp, out, tasks, nev, ndisc>>

\* wg.Wait() returns when every network goroutine has run wg.Done(); main returns
MainWait ==
    /\ proc = "running" /\ mainpc = "wait"
    /\ \A n \in Declared(config) : netpc[n] = "done"
    /\ mainpc' = "returned"
    /\ proc' = "exited"
    /\ UNCHANGED <<hist, err, lib, config, netVars, connUp, out, tasks, nev, ndisc>>

----------------------------------------------------------------------------
(* the per-network goroutine *)

AllTags == {"001", "366", "433", "CTCP_VERSION", "CTCP_TIME", "CTCP_PING",
            "KICK", "INVITE", "PRIVMSG", "PING"}

\* mutant: the configured port is used as it is, a zero included
PortAsConfigured(network) == network.Port

\* var port = 6667; if network.Port != 0 { port = network.Port }
PortOf(network) == IF network.Port # 0 THEN network.Port ELSE DefaultPort

\* mutant: the PING callback is not among those added before connectWithRetry
NetSetupWithoutPing(n) ==
    /\ proc = "running" /\ netpc[n] = "setup"
    /\ handlers' = [handlers EXCEPT ![n] = AllTags \ {"PING"}]
    /\ addr' = [addr EXCEPT ![n] = <<config.Networks[n].Server, PortOf(config.Networks[n])>>]
    /\ backoff' = [backoff EXCEPT ![n] = Second]
    /\ fails' = [fails EXCEPT ![n] = 0]
    /\ lastSleep' = [lastSleep EXCEPT ![n] = 0]
    /\ netpc' = [netpc EXCEPT ![n] = "connect"]
    /\ UNCHANGED <<hist, err, lib, config, proc, mainpc, cwrRet, connUp, out, tasks, nev, ndisc>>

\* mutant: connectWithRetry sleeps before its first attempt
NetSetupSleepFirst(n) ==
    /\ proc = "running" /\ netpc[n] = "setup"
    /\ handlers' = [handlers EXCEPT ![n] = AllTags]
    /\ addr' = [addr EXCEPT ![n] = <<config.Networks[n].Server, PortOf(config.Networks[n])>>]
    /\ backoff' = [backoff EXCEPT ![n] = Second]
    /\ fails' = [fails EXCEPT ![n] = 0]
    /\ lastSleep' = [lastSleep EXCEPT ![n] = 0]
    /\ netpc' = [netpc EXCEPT ![n] = "sleep"]
    /\ UNCHANGED <<hist, err, lib, config, proc, mainpc, cwrRet, connUp, out, tasks, nev, ndisc>>

\* irc.IRC / irc.Client, the AddCallback / HandleFunc calls, the port selection,
\* up to the call of connectWithRetry (whose first statement sets backoff)
NetSetup(n) ==
    /\ proc = "running" /\ netpc[n] = "setup"
    /\ handlers' = [handlers EXCEPT ![n] = AllTags]
    /\ addr' = [addr EXCEPT ![n] = <<config.Networks[n].Server, PortOf(config.Networks[n])>>]
    /\ backoff' = [backoff EXCEPT ![n] = Second]
    /\ fails' = [fails EXCEPT ![n] = 0]
    /\ lastSleep' = [lastSleep EXCEPT ![n] = 0]
    /\ netpc' = [netpc EXCEPT ![n] = "connect"]
    /\ UNCHANGED <<hist, err, lib, config, proc, mainpc, cwrRet, connUp, out, tasks, nev, ndisc>>

\* err := conn.Connect(server): nil -> return nil; otherwise log and go to sleep.
\* The return completes the caller's assignment err = connectWithRetry(conn, server),
\* whose left side is the variable err of main.
ConnectAttempt(n, ok, cap) ==
    /\ proc = "running" /\ netpc[n] = "connect"
    /\ IF ok
       THEN /\ connUp' = [connUp EXCEPT ![n] = TRUE]
            /\ cwrRet' = [cwrRet EXCEPT ![n] = "nil"]
            /\ err' = "nil"
            /\ netpc' = [netpc EXCEPT ![n] = "returned"]
            /\ backoff' = [backoff EXCEPT ![n] = 0]
            /\ fails' = [fails EXCEPT ![n] = 0]
            /\ lastSleep' = [lastSleep EXCEPT ![n] = 0]
       ELSE /\ fails[n] < cap
            /\ fails' = [fails EXCEPT ![n] = fails[n] + 1]
            /\ lastSleep' = lastSleep
            /\ connUp' = connUp
            /\ IF GiveUp(fails[n] + 1)
               THEN /\ cwrRet' = [cwrRet EXCEPT ![n] = "err"]
                    /\ err' = "err"
                    /\ netpc' = [netpc EXCEPT ![n] = "returned"]
                    /\ backoff' = [backoff EXCEPT ![n] = 0]
               ELSE /\ cwrRet' = cwrRet
                    /\ err' = err
                    /\ netpc' = [netpc EXCEPT ![n] = "sleep"]
                    /\ backoff' = backoff
    /\ UNCHANGED <<hist, lib, config, proc, mainpc, handlers, addr, out, tasks, nev, ndisc>>

\* time.Sleep(backoff); backoff *= 2; if backoff > maxBackoff { backoff = maxBackoff }
RetrySleep(n) ==
    /\ proc = "running" /\ netpc[n] = "sleep"
    /\ lastSleep' = [lastSleep EXCEPT ![n] = backoff[n]]
    /\ backoff' = [backoff EXCEPT ![n] = NextBackoff(backoff[n])]
    /\ netpc' = [netpc EXCEPT ![n] = "connect"]
    /\ UNCHANGED <<hist, err, lib, config, proc, mainpc, handlers, addr, fails, cwrRet, connUp,
                   out, tasks, nev, ndisc>>

\* if err != nil { return }; then conn.Loop() (go-ircevent) or the end of the
\* goroutine (fluffle/goirc); a return runs the deferred wg.Done()
AfterConnect(n) ==
    /\ proc = "running" /\ netpc[n] = "returned"
    /\ netpc' = [netpc EXCEPT ![n] =
                    IF err = "err" THEN "done"
                    ELSE IF lib = "ircevent" THEN "loop" ELSE "done"]
    /\ UNCHANGED <<hist, err, lib, config, proc, mainpc, handlers, addr, backoff, fails, lastSleep,
                   cwrRet, connUp, out, tasks, nev, ndisc>>

\* the goroutine of n is at err = connectWithRetry(conn, server): its next
\* successful attempt writes main's err
ErrWriteNext(n) == proc = "running" /\ netpc[n] = "connect"

\* the goroutine of n has assigned err and is at if err != nil: its next step
\* reads main's err
ErrReadNext(n) == proc = "running" /\ netpc[n] = "returned"

----------------------------------------------------------------------------
(* net/url: the part of url.Parse and URL.String the PRIVMSG callback relies on *)

Letters == {"a", "b", "c", "h", "p", "s", "t"}
Digits == {"0", "1", "2", "3", "4", "5", "6", "7", "8", "9"}

\* getScheme: [err, scheme, rest]
RECURSIVE GetSchemeFrom(_, _)
GetSchemeFrom(raw, i) ==
    IF i > Len(raw) THEN [err |-> FALSE, scheme |-> <<>>, rest |-> raw]
    ELSE IF raw[i] \in Letters THEN GetSchemeFrom(raw, i + 1)
    ELSE IF raw[i] \in Digits \cup {"+", "-", "."}
         THEN IF i = 1 THEN [err |-> FALSE, scheme |-> <<>>, rest |-> raw]
              ELSE GetSchemeFrom(raw, i + 1)
    ELSE IF raw[i] = ":"
         THEN IF i = 1 THEN [err |-> TRUE, scheme |-> <<>>, rest |-> <<>>]
              ELSE [err |-> FALSE, scheme |-> SubSeq(raw, 1, i - 1),
                    rest |-> SubSeq(raw, i + 1, Len(raw))]
    ELSE [err |-> FALSE, scheme |-> <<>>, rest |-> raw]

GetScheme(raw) == GetSchemeFrom(raw, 1)

RECURSIVE LastIndexFrom(_, _, _)
LastIndexFrom(s, c, i) ==
    IF i < 1 THEN 0 ELSE IF s[i] = c THEN i ELSE LastIndexFrom(s, c, i - 1)

LastIndex(s, c) == LastIndexFrom(s, c, Len(s))

\* validOptionalPort applied to the host part of the authority
ValidPort(authority) ==
    LET k == LastIndex(authority, ":")
    IN  k = 0 \/ \A j \in (k + 1)..Len(authority) : authority[j] \in Digits

URLError == [err |-> TRUE, Scheme |-> <<>>, Host |-> <<>>, Path |-> <<>>, Fragment |-> <<>>]

\* url.Parse for texts without '?', '@', '[', '%' and control characters
ParseURL(word) ==
    LET h    == Index(word, "#")
        u    == IF h = 0 THEN word ELSE SubSeq(word, 1, h - 1)
        frag == IF h = 0 THEN <<>> ELSE SubSeq(word, h + 1, Len(word))
        gs   == GetScheme(u)
        rest == gs.rest
        seg  == IF Index(rest, "/") = 0 THEN rest ELSE SubSeq(rest, 1, Index(rest, "/") - 1)
        auth == LET r2 == SubSeq(rest, 3, Len(rest))
                    k  == Index(r2, "/")
                IN  IF k = 0 THEN [host |-> r2, path |-> <<>>]
                    ELSE [host |-> SubSeq(r2, 1, k - 1), path |-> SubSeq(r2, k, Len(r2))]
    IN  IF gs.err THEN URLError
        ELSE IF ~HasPrefix(rest, <<"/">>)
             THEN IF gs.scheme # <<>>
                  THEN \* rootless path: kept as Opaque, no host
                       [err |-> FALSE, Scheme |-> gs.scheme, Host |-> <<>>, Path |-> <<>>,
                        Fragment |-> frag]
                  ELSE IF Index(seg, ":") # 0
                       THEN URLError   \* first path segment in URL cannot contain colon
                       ELSE [err |-> FALSE, Scheme |-> <<>>, Host |-> <<>>, Path |-> rest,
                             Fragment |-> frag]
        ELSE IF HasPrefix(rest, <<"/", "/">>) /\ (gs.scheme # <<>> \/ ~HasPrefix(rest, <<"/", "/", "/">>))
             THEN IF ValidPort(auth.host)
                  THEN [err |-> FALSE, Scheme |-> gs.scheme, Host |-> auth.host,
                        Path |-> auth.path, Fragment |-> frag]
                  ELSE URLError
        ELSE [err |-> FALSE, Scheme |-> gs.scheme, Host |-> <<>>, Path |-> rest, Fragment |-> frag]

\* URL.String of a URL with a scheme and a host: an empty fragment is not written
URLString(u) ==
    u.Scheme \o <<":", "/", "/">> \o u.Host \o u.Path
      \o (IF u.Fragment # <<>> THEN <<"#">> \o u.Fragment ELSE <<>>)

----------------------------------------------------------------------------
(* the dispatched goroutines *)

NoReq == [sent |-> FALSE]
NoOutcome == [kind |-> "none"]
NoRet == <<>>

\* a run that keeps a history records x, any other run keeps the placeholder
Recorded(x, none) == IF hist.on THEN x ELSE none

\* go handleCommand(&config, conn, e, e.Message()[1:]) / go handleURL(&config, conn, e, u.String())
\* mutant: one connection variable declared outside the goroutines, so that
\* every dispatched task uses the connection of the first network
NewTaskFirstConn(n, kind, arg, target, src) ==
    [net |-> "n1", kind |-> kind, arg |-> arg, target |-> target, src |-> src,
     pc |-> "spawned", req |-> NoReq, nreq |-> 0, outcome |-> NoOutcome, ret |-> NoRet,
     reply |-> NoRet, closed |-> 0]

\* req: the payload posted, nreq: the number of client.Do calls made; history
\* of the call: outcome (what the backend did), ret (what fetchLambda...
\* returned), reply (what the task sent), closed (the number of
\* resp.Body.Close() calls made)
NewTask(n, kind, arg, target, src) ==
    [net |-> n, kind |-> kind, arg |-> arg, target |-> target, src |-> src,
     pc |-> "spawned", req |-> NoReq, nreq |-> 0, outcome |-> NoOutcome, ret |-> NoRet,
     reply |-> NoRet, closed |-> 0]

\* the dispatched goroutines of network n that have not ended / that wait for the backend
Pending(n) == {i \in DOMAIN tasks : tasks[i].net = n /\ tasks[i].pc \in {"spawned", "inflight"}}
InFlight(n) == {i \in DOMAIN tasks : tasks[i].net = n /\ tasks[i].pc = "inflight"}

\* splitCommandString: fields[:1] of an empty slice is out of range (panic)
SplitPanics(commandStr) == Len(Fields(commandStr)) = 0

\* splitCommandString: <<command, args>>
splitCommandString(commandStr) ==
    LET fields == Fields(commandStr)
    IN  IF Len(fields) > 1
        THEN <<SubSeq(fields, 1, 1), SubSeq(fields, 2, Len(fields))>>
        ELSE <<SubSeq(fields, 1, 1), <<>> >>

\* the CommandPayload handleCommand builds
CommandPayload(t) ==
    LET sp == splitCommandString(t.arg)
    IN  [sent |-> TRUE, Command |-> JoinSp(sp[1]), Args |-> JoinSp(sp[2]),
         Channel |-> t.target, User |-> t.src]

\* the TitlePayload handleURL builds
TitlePayload(t) == [sent |-> TRUE, URL |-> t.arg, Channel |-> t.target, User |-> t.src]

\* the endpoint a task calls
EndpointOf(t) == IF t.kind = "cmd" THEN config.LambdaCommand ELSE config.LambdaTitle

\* http.NewRequest("POST", endpoint, body) fails when url.Parse rejects the endpoint
NewRequestFails(endpoint) == ParseURL(endpoint).err

\* mutant: the result is returned whenever it is not empty, errorMessage is
\* looked at only for an empty result
FetchResultResultFirst(o) ==
    IF o.kind \in {"newrequest", "transport", "read", "decode"} THEN <<"", TRUE>>
    ELSE IF o.result # "" THEN <<o.result, FALSE>>
    ELSE IF o.errorMessage # "" THEN <<"", TRUE>>
    ELSE <<o.result, FALSE>>

\* fetchLambdaCommand / fetchLambdaTitle: the <<text, err>> returned for outcome o
FetchResult(o) ==
    IF o.kind = "newrequest" THEN <<"", TRUE>>       \* http.NewRequest failed
    ELSE IF o.kind = "transport" THEN <<"", TRUE>>   \* client.Do failed
    ELSE IF o.kind = "read" THEN <<"", TRUE>>        \* io.ReadAll failed
    ELSE IF o.kind = "decode" THEN <<"", TRUE>>      \* json.Unmarshal failed
    ELSE IF o.errorMessage # "" THEN <<"", TRUE>>
    ELSE <<o.result, FALSE>>

\* mutant: no test for an empty text before conn.Privmsg
ReplyAlsoEmpty(t, r) ==
    IF r[2] THEN <<>>
    ELSE IF t.kind = "cmd"
         THEN << [cmd |-> "PRIVMSG", target |-> t.target, text |-> r[1]] >>
         ELSE << [cmd |-> "PRIVMSG", target |-> t.target, text |-> "Title: " \o r[1]] >>

\* mutant: the error of a failed call is reported to the channel
ReplyOnError(t, r) ==
    IF r[2] THEN << [cmd |-> "PRIVMSG", target |-> t.target, text |-> "error"] >>
    ELSE IF r[1] = "" THEN <<>>
    ELSE IF t.kind = "cmd"
         THEN << [cmd |-> "PRIVMSG", target |-> t.target, text |-> r[1]] >>
         ELSE << [cmd |-> "PRIVMSG", target |-> t.target, text |-> "Title: " \o r[1]] >>

\* mutant: the title is sent without the "Title: " prefix
ReplyNoTitlePrefix(t, r) ==
    IF r[2] \/ r[1] = "" THEN <<>>
    ELSE << [cmd |-> "PRIVMSG", target |-> t.target, text |-> r[1]] >>

\* mutant: resp.Body.Close() as the last statement before the successful
\* return instead of a defer: the early returns skip it
BodyClosesAtEndOnly(o) ==
    IF o.kind = "resp" /\ o.errorMessage = "" THEN 1 ELSE 0

\* the number of resp.Body.Close() calls fetchLambdaCommand / fetchLambdaTitle
\* makes for outcome o: the defer is registered once client.Do has returned a
\* response, and runs once at whichever return follows
BodyCloses(o) ==
    IF o.kind \in {"newrequest", "transport"} THEN 0 ELSE 1

\* what the task sends once fetch has returned <<text, err>>
Reply(t, r) ==
    IF r[2] \/ r[1] = "" THEN <<>>
    ELSE IF t.kind = "cmd"
         THEN << [cmd |-> "PRIVMSG", target |-> t.target, text |-> r[1]] >>
         ELSE << [cmd |-> "PRIVMSG", target |-> t.target, text |-> "Title: " \o r[1]] >>

Resp(result, errorMessage) == [kind |-> "resp", result |-> result, errorMessage |-> errorMessage]

Outcomes ==
    { [kind |-> "transport"], [kind |-> "read"], [kind |-> "decode"] }
      \cup { Resp(r, e) : r \in {"", "res"}, e \in {"", "boom"} }

\* the goroutine runs up to client.Do: handleCommand validates and splits the
\* command string (an out-of-range slice panics and takes the process down);
\* when http.NewRequest fails the call returns its error before client.Do
TaskStart(i) ==
    /\ proc = "running"
    /\ i \in DOMAIN tasks /\ tasks[i].pc = "spawned"
    /\ LET t == tasks[i]
       IN  IF t.kind = "cmd" /\ t.arg = <<>>
           THEN /\ tasks' = [tasks EXCEPT ![i].pc = "done"]
                /\ proc' = proc
                /\ out' = out
           ELSE IF t.kind = "cmd" /\ SplitPanics(t.arg)
           THEN /\ tasks' = [tasks EXCEPT ![i].pc = "panicked"]
                /\ proc' = "crashed"
                /\ out' = out
           ELSE IF NewRequestFails(EndpointOf(t))
           THEN /\ tasks' = [tasks EXCEPT ![i].pc = "done",
                                          ![i].outcome = Recorded([kind |-> "newrequest"], NoOutcome),
                                          ![i].ret = Recorded(FetchResult([kind |-> "newrequest"]), NoRet),
                                          ![i].reply = Recorded(Reply(t, FetchResult([kind |-> "newrequest"])), NoRet),
                                          ![i].closed = Recorded(BodyCloses([kind |-> "newrequest"]), 0)]
                /\ proc' = proc
                /\ out' = [out EXCEPT ![t.net] = out[t.net] \o Reply(t, FetchResult([kind |-> "newrequest"]))]
           ELSE /\ tasks' = [tasks EXCEPT ![i].pc = "inflight",
                                          ![i].nreq = @ + 1,
                                          ![i].req = IF t.kind = "cmd" THEN CommandPayload(t)
                                                     ELSE TitlePayload(t)]
                /\ proc' = proc
                /\ out' = out
    /\ UNCHANGED <<hist, err, lib, config, mainpc, netVars, connUp, nev, ndisc>>

\* mutant: a failed call is made once more before the task gives up
TaskReturnRetry(i, o) ==
    /\ proc = "running"
    /\ i \in DOMAIN tasks /\ tasks[i].pc = "inflight"
    /\ LET t == tasks[i]
       IN  IF FetchResult(o)[2] /\ t.nreq < 2
           THEN /\ tasks' = [tasks EXCEPT ![i].nreq = @ + 1]
                /\ out' = out
           ELSE /\ tasks' = [tasks EXCEPT ![i].pc = "done",
                                          ![i].outcome = Recorded(o, NoOutcome),
                                          ![i].ret = Recorded(FetchResult(o), NoRet),
                                          ![i].reply = Recorded(Reply(t, FetchResult(o)), NoRet)]
                /\ out' = [out EXCEPT ![t.net] = out[t.net] \o Reply(t, FetchResult(o))]
    /\ UNCHANGED <<hist, err, lib, config, proc, mainpc, netVars, connUp, nev, ndisc>>

\* mutant: replies leave through a queue in dispatch order: a call's return is
\* handled only once every call dispatched before it on the network has ended
TaskReturnInOrder(i, o) ==
    /\ proc = "running"
    /\ i \in DOMAIN tasks /\ tasks[i].pc = "inflight"
    /\ \A j \in 1..(i - 1) : tasks[j].net = tasks[i].net => j \notin Pending(tasks[i].net)
    /\ LET t == tasks[i]
       IN  /\ tasks' = [tasks EXCEPT ![i].pc = "done",
                                      ![i].outcome = Recorded(o, NoOutcome),
                                      ![i].ret = Recorded(FetchResult(o), NoRet),
                                      ![i].reply = Recorded(Reply(t, FetchResult(o)), NoRet)]
           /\ out' = [out EXCEPT ![t.net] = out[t.net] \o Reply(t, FetchResult(o))]
    /\ UNCHANGED <<hist, err, lib, config, proc, mainpc, netVars, connUp, nev, ndisc>>

\* the backend call ends with outcome o; the task replies or stays silent and ends
TaskReturn(i, o) ==
    /\ proc = "running"
    /\ i \in DOMAIN tasks /\ tasks[i].pc = "inflight"
    /\ LET t == tasks[i]
       IN  /\ tasks' = [tasks EXCEPT ![i].pc = "done",
                                      ![i].outcome = Recorded(o, NoOutcome),
                                      ![i].ret = Recorded(FetchResult(o), NoRet),
                                      ![i].reply = Recorded(Reply(t, FetchResult(o)), NoRet),
                                      ![i].closed = Recorded(BodyCloses(o), 0)]
           /\ out' = [out EXCEPT ![t.net] = out[t.net] \o Reply(t, FetchResult(o))]
    /\ UNCHANGED <<hist, err, lib, config, proc, mainpc, netVars, connUp, nev, ndisc>>

----------------------------------------------------------------------------
(* the event callbacks *)

\* A callback runs when the connection delivers an event it is registered for;
\* it returns without waiting for the goroutines it started.
EventBudget ==
    IF hist.mode = "line" THEN MaxLineEvents
    ELSE IF hist.mode = "control" THEN MaxCtlEvents
    ELSE IF hist.mode = "pair" THEN MaxPairLines
    ELSE IF hist.mode = "iso" THEN MaxIsoEvents
    ELSE IF Cardinality(Declared(config)) > 1 THEN MaxMultiEvents ELSE MaxEvents

\* mutant: handleCommand / handleURL called without `go`: the callback, and
\* with it the connection's event processing, waits for the backend call
EventReadyWhenIdle(n, tag) ==
    /\ proc = "running"
    /\ connUp[n]
    /\ tag \in handlers[n]
    /\ nev < EventBudget
    /\ Pending(n) = {}

EventReady(n, tag) ==
    /\ proc = "running"
    /\ connUp[n]
    /\ tag \in handlers[n]
    /\ nev < EventBudget

Delivered ==
    /\ nev' = nev + 1
    /\ ndisc' = ndisc

\* a run that keeps a history notes the control event and its arguments
Logged(n, tag, args) ==
    hist' = Recorded([hist EXCEPT !.events = Append(@, [net |-> n, tag |-> tag, args |-> args,
                                                        nout |-> Len(out[n])])], hist)

\* mutant: the prefix is added without looking at the name
NormChannelAlways(channel) == <<"#">> \o channel

\* if !strings.HasPrefix(channel, "#") { channel = "#" + channel }
NormChannel(channel) == IF HasPrefix(channel, <<"#">>) THEN channel ELSE <<"#">> \o channel

JoinMsg(channel) == [cmd |-> "JOIN", chan |-> channel]

\* "001" / CONNECTED: for _, channel := range network.Channels { ...; conn.Join(channel) }
JoinsOn001(n) ==
    [k \in 1..Len(config.Networks[n].Channels) |-> JoinMsg(NormChannel(config.Networks[n].Channels[k]))]

On001(n) ==
    /\ EventReady(n, "001")
    /\ out' = [out EXCEPT ![n] = out[n] \o JoinsOn001(n)]
    /\ Delivered
    /\ Logged(n, "001", <<>>)
    /\ UNCHANGED <<err, lib, config, proc, mainpc, netVars, connUp, tasks>>

\* "366": slog.Info only
On366(n) ==
    /\ EventReady(n, "366")
    /\ Delivered
    /\ Logged(n, "366", <<>>)
    /\ UNCHANGED <<err, lib, config, proc, mainpc, netVars, connUp, out, tasks>>

\* mutant: the suffix is appended to the nickname last asked for
NickOn433Accumulating(n) ==
    LET asked == {k \in DOMAIN out[n] : out[n][k].cmd = "NICK"}
    IN  IF asked = {} THEN config.Nickname \o "_"
        ELSE out[n][CHOOSE k \in asked : \A j \in asked : j <= k].nick \o "_"

\* config.Nickname + "_"
NickOn433(n) == config.Nickname \o "_"

\* "433": conn.Nick(config.Nickname + "_")
On433(n) ==
    /\ EventReady(n, "433")
    /\ out' = [out EXCEPT ![n] = Append(out[n], [cmd |-> "NICK", nick |-> NickOn433(n)])]
    /\ Delivered
    /\ Logged(n, "433", <<>>)
    /\ UNCHANGED <<err, lib, config, proc, mainpc, netVars, connUp, tasks>>

RawMsg(line) == [cmd |-> "RAW", line |-> line]

\* mutant: the PING answer carries the time of the answer, not the payload
CTCPReplyPingTime(kind, nick, arg, now) ==
    IF kind = "CTCP_VERSION"
    THEN RawMsg("NOTICE " \o nick \o " :\\x01VERSION gobotlite - https://github.com/lepinkainen/gobotlite\\x01")
    ELSE IF kind = "CTCP_TIME"
    THEN RawMsg("NOTICE " \o nick \o " :\\x01TIME " \o now \o "\\x01")
    ELSE RawMsg("NOTICE " \o nick \o " :\\x01PING " \o now \o "\\x01")

\* CTCP_VERSION, CTCP_TIME, CTCP_PING: one NOTICE to e.Nick
CTCPReply(kind, nick, arg, now) ==
    IF kind = "CTCP_VERSION"
    THEN RawMsg("NOTICE " \o nick \o " :\\x01VERSION gobotlite - https://github.com/lepinkainen/gobotlite\\x01")
    ELSE IF kind = "CTCP_TIME"
    THEN RawMsg("NOTICE " \o nick \o " :\\x01TIME " \o now \o "\\x01")
    ELSE RawMsg("NOTICE " \o nick \o " :\\x01PING " \o arg \o "\\x01")

OnCTCP(n, kind, nick, arg, now) ==
    /\ EventReady(n, kind)
    /\ out' = [out EXCEPT ![n] = Append(out[n], CTCPReply(kind, nick, arg, now))]
    /\ Delivered
    /\ Logged(n, kind, <<nick, arg, now>>)
    /\ UNCHANGED <<err, lib, config, proc, mainpc, netVars, connUp, tasks>>

\* "KICK": if e.Arguments[1] == config.Nickname { conn.Join(e.Arguments[0]) }
OnKICK(n, channel, who) ==
    /\ EventReady(n, "KICK")
    /\ out' = [out EXCEPT ![n] = IF who = config.Nickname THEN Append(out[n], JoinMsg(channel))
                                 ELSE out[n]]
    /\ Delivered
    /\ Logged(n, "KICK", <<channel, who>>)
    /\ UNCHANGED <<err, lib, config, proc, mainpc, netVars, connUp, tasks>>

\* mutant: the commented-out conn.Join of the invited channel is active
OnINVITEJoins(n) ==
    /\ EventReady(n, "INVITE")
    /\ out' = [out EXCEPT ![n] = Append(out[n], JoinMsg(<<"#", "x">>))]
    /\ Delivered
    /\ Logged(n, "INVITE", <<>>)
    /\ UNCHANGED <<err, lib, config, proc, mainpc, netVars, connUp, tasks>>

\* "INVITE": slog.Info only (the Join is commented out)
OnINVITE(n) ==
    /\ EventReady(n, "INVITE")
    /\ Delivered
    /\ Logged(n, "INVITE", <<>>)
    /\ UNCHANGED <<err, lib, config, proc, mainpc, netVars, connUp, out, tasks>>

\* mutant: the payload is not echoed
PongLineNoPayload(p) == RawMsg("PONG :")

\* "PING": conn.SendRaw("PONG :" + e.Message())
PongLine(p) == RawMsg("PONG :" \o p)

OnPING(n, p) ==
    /\ EventReady(n, "PING")
    /\ out' = [out EXCEPT ![n] = Append(out[n], PongLine(p))]
    /\ Delivered
    /\ Logged(n, "PING", <<p>>)
    /\ UNCHANGED <<err, lib, config, proc, mainpc, netVars, connUp, tasks>>

HTTP == <<"h", "t", "t", "p">>

\* mutant: every word with the "http" prefix that url.Parse accepts is
\* dispatched, with or without a scheme and a host
RECURSIVE URLTasksAnyParsed(_, _, _, _, _, _)
URLTasksAnyParsed(n, words, k, text, target, src) ==
    IF k > Len(words) THEN <<>>
    ELSE LET word == words[k]
             u    == ParseURL(word)
             here == IF ~HasPrefix(word, HTTP) THEN <<>>
                     ELSE IF u.err THEN <<>>
                     ELSE IF HasPrefix(text, <<"*">>) THEN <<>>
                     ELSE << NewTask(n, "url", word, target, src) >>
         IN  here \o URLTasksAnyParsed(n, words, k + 1, text, target, src)

\* mutant: the URL loop without the test for the '*' prefix of the line
RECURSIVE URLTasksNoStarCheck(_, _, _, _, _, _)
URLTasksNoStarCheck(n, words, k, text, target, src) ==
    IF k > Len(words) THEN <<>>
    ELSE LET word == words[k]
             u    == ParseURL(word)
             here == IF ~HasPrefix(word, HTTP) THEN <<>>
                     ELSE IF u.err THEN <<>>
                     ELSE IF u.Scheme # <<>> /\ u.Host # <<>>
                          THEN << NewTask(n, "url", URLString(u), target, src) >>
                     ELSE <<>>
         IN  here \o URLTasksNoStarCheck(n, words, k + 1, text, target, src)

\* the URL loop of the PRIVMSG callback: the tasks started for words[k..]
RECURSIVE URLTasks(_, _, _, _, _, _)
URLTasks(n, words, k, text, target, src) ==
    IF k > Len(words) THEN <<>>
    ELSE LET word == words[k]
             u    == ParseURL(word)
             here == IF ~HasPrefix(word, HTTP) THEN <<>>
                     ELSE IF u.err THEN <<>>
                     ELSE IF u.Scheme # <<>> /\ u.Host # <<>>
                          THEN IF HasPrefix(text, <<"*">>) THEN <<>>
                               ELSE << NewTask(n, "url", URLString(u), target, src) >>
                     ELSE <<>>
         IN  here \o URLTasks(n, words, k + 1, text, target, src)

\* mutant: a line is dropped while a call started by an earlier line is pending
PrivmsgTasksWhenIdle(n, nick, target, text) ==
    LET words == Fields(text)
        src   == nick \o "!u@h"
    IN  IF Pending(n) # {} THEN <<>>
        ELSE IF nick = ExcludedNick THEN <<>>
        ELSE IF Len(words) = 0 THEN <<>>
        ELSE IF HasPrefix(text, <<".">>) /\ Len(text) > 1
             THEN << NewTask(n, "cmd", SubSeq(text, 2, Len(text)), target, src) >>
        ELSE URLTasks(n, words, 1, text, target, src)

\* mutant: the callback without the test of the sender's nick
PrivmsgTasksNoExclusion(n, nick, target, text) ==
    LET words == Fields(text)
        src   == nick \o "!u@h"
    IN  IF Len(words) = 0 THEN <<>>
        ELSE IF HasPrefix(text, <<".">>) /\ Len(text) > 1
             THEN << NewTask(n, "cmd", SubSeq(text, 2, Len(text)), target, src) >>
        ELSE URLTasks(n, words, 1, text, target, src)

\* mutant: no `return` after `go handleCommand(...)`: a command line goes on
\* into the URL loop
PrivmsgTasksNoReturn(n, nick, target, text) ==
    LET words == Fields(text)
        src   == nick \o "!u@h"
    IN  IF nick = ExcludedNick THEN <<>>
        ELSE IF Len(words) = 0 THEN <<>>
        ELSE (IF HasPrefix(text, <<".">>) /\ Len(text) > 1
              THEN << NewTask(n, "cmd", SubSeq(text, 2, Len(text)), target, src) >>
              ELSE <<>>)
             \o URLTasks(n, words, 1, text, target, src)

\* mutant: a ceiling of two calls in flight: a line that arrives while two
\* calls are in flight on the connection is dropped
PrivmsgTasksAtMostTwo(n, nick, target, text) ==
    LET words == Fields(text)
        src   == nick \o "!u@h"
    IN  IF Cardinality(InFlight(n)) >= 2 THEN <<>>
        ELSE IF nick = ExcludedNick THEN <<>>
        ELSE IF Len(words) = 0 THEN <<>>
        ELSE IF HasPrefix(text, <<".">>) /\ Len(text) > 1
             THEN << NewTask(n, "cmd", SubSeq(text, 2, Len(text)), target, src) >>
        ELSE URLTasks(n, words, 1, text, target, src)

\* the PRIVMSG callback: the goroutines it starts, in order
PrivmsgTasks(n, nick, target, text) ==
    LET words == Fields(text)
        src   == nick \o "!u@h"
    IN  IF nick = ExcludedNick THEN <<>>
        ELSE IF Len(words) = 0 THEN <<>>
        ELSE IF HasPrefix(text, <<".">>) /\ Len(text) > 1
             THEN << NewTask(n, "cmd", SubSeq(text, 2, Len(text)), target, src) >>
        ELSE URLTasks(n, words, 1, text, target, src)

OnPRIVMSG(n, nick, target, text) ==
    /\ EventReady(n, "PRIVMSG")
    /\ tasks' = tasks \o PrivmsgTasks(n, nick, target, text)
    /\ hist' = Recorded([hist EXCEPT !.lines = Append(@, [net |-> n, nick |-> nick, target |-> target,
                                                           text |-> text, ntasks |-> Len(tasks)])], hist)
    /\ Delivered
    /\ UNCHANGED <<err, lib, config, proc, mainpc, netVars, connUp, out>>

\* a terminal transport error on an established connection
Disconnect(n) ==
    /\ proc = "running"
    /\ connUp[n]
    /\ ndisc < MaxDisconnects
    /\ ndisc' = ndisc + 1
    /\ connUp' = [connUp EXCEPT ![n] = FALSE]
    /\ UNCHANGED <<hist, err, lib, config, proc, mainpc, netVars, out, tasks, nev>>

\* conn.Loop(): go-ircevent reconnects by itself (a failed Reconnect sleeps a
\* fixed 60 s and tries again); connectWithRetry is not involved
LoopReconnect(n) ==
    /\ proc = "running"
    /\ lib = "ircevent" /\ netpc[n] = "loop"
    /\ ~connUp[n]
    /\ connUp' = [connUp EXCEPT ![n] = TRUE]
    /\ UNCHANGED <<hist, err, lib, config, proc, mainpc, netVars, out, tasks, nev, ndisc>>

----------------------------------------------------------------------------
(* inputs of the system specification *)

URLA == HTTP \o <<":", "/", "/", "a">>
URLB == HTTP \o <<"s", ":", "/", "/", "b", "#">>

Line(nick, target, text) == [nick |-> nick, target |-> target, text |-> text]

CmdText == <<".", "a", " ", " ", "b", " ", "c">>

\* the PRIVMSG events of the system specification
SysLines ==
    { Line("alice", "#a", <<".", " ">>),
      Line("alice", "#a", <<".">>),
      Line("alice", "#a", CmdText),
      Line("alice", Nickname, CmdText),
      Line("alice", "#a", <<".", "a", " ">> \o URLA),
      Line("alice", "#a", URLA),
      Line("alice", "#a", URLA \o <<" ">> \o URLB),
      Line("alice", "#a", <<"*", " ">> \o URLA),
      Line(ExcludedNick, "#a", CmdText),
      Line(ExcludedNick, "#a", URLA) }

PingPayloads == {"abc123", "x"}
KickChannels == { <<"#", "a">> }
KickTargets == {Nickname, Nickname \o "_", "alice"}
Times == {"t1", "t2"}

ConnectFail(n) == ConnectAttempt(n, FALSE, MaxFails)
ConnectSucceed(n) == ConnectAttempt(n, TRUE, MaxFails)

Next ==
    \/ MainValidate
    \/ MainSpawn
    \/ MainWait
    \/ \E n \in Networks : NetSetup(n)
    \/ \E n \in Networks : ConnectSucceed(n)
    \/ \E n \in Networks : ConnectFail(n)
    \/ \E n \in Networks : RetrySleep(n)
    \/ \E n \in Networks : AfterConnect(n)
    \/ \E n \in Networks : On001(n)
    \/ \E n \in Networks : On366(n)
    \/ \E n \in Networks : On433(n)
    \/ \E n \in Networks, k \in {"CTCP_VERSION", "CTCP_TIME", "CTCP_PING"}, now \in Times :
          OnCTCP(n, k, "alice", "42", now)
    \/ \E n \in Networks, c \in KickChannels, w \in KickTargets : OnKICK(n, c, w)
    \/ \E n \in Networks : OnINVITE(n)
    \/ \E n \in Networks, p \in PingPayloads : OnPING(n, p)
    \/ \E n \in Networks, l \in SysLines : OnPRIVMSG(n, l.nick, l.target, l.text)
    \/ \E n \in Networks : Disconnect(n)
    \/ \E n \in Networks : LoopReconnect(n)
    \/ \E i \in 1..Len(tasks) : TaskStart(i)
    \/ \E i \in 1..Len(tasks), o \in Outcomes : TaskReturn(i, o)

Spec == Init /\ [][Next]_vars

----------------------------------------------------------------------------
(* the retry specification: connectWithRetry with many failures, no events *)

ConnectOK(n) == ConnectAttempt(n, TRUE, MaxRetryFails)
ConnectFailRetry(n) == ConnectAttempt(n, FALSE, MaxRetryFails)

NextRetry ==
    \/ MainValidate
    \/ MainSpawn
    \/ MainWait
    \/ \E n \in Networks : NetSetup(n)
    \/ \E n \in Networks : ConnectOK(n)
    \/ \E n \in Networks : ConnectFailRetry(n)
    \/ \E n \in Networks : RetrySleep(n)
    \/ \E n \in Networks : AfterConnect(n)

SpecRetry == Init /\ [][NextRetry]_vars

\* the retry specification with the main goroutine scheduled fairly: main is
\* runnable whenever its next statement can execute, and the Go scheduler
\* runs a runnable goroutine eventually
SpecMainFair ==
    /\ Init /\ [][NextRetry]_vars
    /\ WF_vars(MainValidate) /\ WF_vars(MainSpawn) /\ WF_vars(MainWait)

----------------------------------------------------------------------------
(* the line specification: one network, every kind of PRIVMSG line, and a  *)
(* history of the lines delivered and of the outcome of each backend call  *)

\* one network; the endpoints parse, or are non-empty strings url.Parse rejects
LineConfigs ==
    { [GoodConfig EXCEPT !.Networks = [n \in {"n1"} |-> NetA]],
      [GoodConfig EXCEPT !.Networks = [n \in {"n1"} |-> NetA],
                         !.LambdaCommand = EndpointUnparsable,
                         !.LambdaTitle = EndpointUnparsable] }

\* the PRIVMSG events of the line specification
LineInputs ==
    SysLines \cup
    { Line("bob", "#a", <<"*", " ">> \o URLA \o <<" ">> \o URLA \o <<" ">> \o URLB),
      Line("bob", Nickname, <<"*", " ">> \o URLB),
      Line(ExcludedNick, "#a", <<".", "a", " ">> \o URLA),
      Line(ExcludedNick, "#a", <<"h", "i">>),
      Line(ExcludedNick, Nickname, URLA \o <<" ">> \o URLB),
      Line("alice", "#a", <<"h", "i">>),
      Line("alice", "#a", <<" ">>),
      Line("alice", "#a", HTTP \o <<":">>),
      Line("alice", "#a", <<"a", " ">> \o HTTP \o <<":", "/", "/">>),
      Line("alice", "#a", HTTP \o <<":", "/", "/", "a", ":", "b">>),
      Line("alice", Nickname, URLA),
      Line("alice", "#a", <<"a", " ">> \o URLB) }

InitLine ==
    /\ config \in LineConfigs
    /\ hist = [on |-> TRUE, mode |-> "line", lines |-> <<>>, events |-> <<>>]
    /\ InitProcess

NextLine ==
    \/ MainValidate
    \/ MainSpawn
    \/ MainWait
    \/ \E n \in Networks : NetSetup(n)
    \/ \E n \in Networks : ConnectSucceed(n)
    \/ \E n \in Networks : AfterConnect(n)
    \/ \E n \in Networks, l \in LineInputs : OnPRIVMSG(n, l.nick, l.target, l.text)
    \/ \E i \in 1..Len(tasks) : TaskStart(i)
    \/ \E i \in 1..Len(tasks), o \in Outcomes : TaskReturn(i, o)

SpecLine == InitLine /\ [][NextLine]_vars

----------------------------------------------------------------------------
(* the control specification: one network, the control events (001, 366,   *)
(* 433, CTCP, KICK, INVITE, PING) in every order, and a history of them    *)

CtlConfigs == { [GoodConfig EXCEPT !.Networks = [n \in {"n1"} |-> NetA]] }

\* the introspection queries of the control specification: VERSION and TIME
\* from alice, PING from two senders with two payloads
CtcpQueries ==
    { [kind |-> "CTCP_VERSION", nick |-> "alice", arg |-> "VERSION", now |-> "t1"],
      [kind |-> "CTCP_TIME", nick |-> "alice", arg |-> "TIME", now |-> "t1"],
      [kind |-> "CTCP_TIME", nick |-> "bob", arg |-> "TIME", now |-> "t2"] }
      \cup { [kind |-> "CTCP_PING", nick |-> w, arg |-> p, now |-> "t1"] :
                 w \in {"alice", "bob"}, p \in PingPayloads }

InitCtl ==
    /\ config \in CtlConfigs
    /\ hist = [on |-> TRUE, mode |-> "control", lines |-> <<>>, events |-> <<>>]
    /\ InitProcess

NextCtl ==
    \/ MainValidate
    \/ MainSpawn
    \/ MainWait
    \/ \E n \in Networks : NetSetup(n)
    \/ \E n \in Networks : ConnectSucceed(n)
    \/ \E n \in Networks : AfterConnect(n)
    \/ \E n \in Networks : On001(n)
    \/ \E n \in Networks : On366(n)
    \/ \E n \in Networks : On433(n)
    \/ \E n \in Networks, q \in CtcpQueries : OnCTCP(n, q.kind, q.nick, q.arg, q.now)
    \/ \E n \in Networks, c \in KickChannels, w \in KickTargets : OnKICK(n, c, w)
    \/ \E n \in Networks : OnINVITE(n)
    \/ \E n \in Networks, p \in PingPayloads : OnPING(n, p)

SpecCtl == InitCtl /\ [][NextCtl]_vars

----------------------------------------------------------------------------
(* the pair specification: one network, several lines one after the other  *)
(* (a command, a link, a plain line), backend answers that tell the calls  *)
(* apart, and the history of the line specification                        *)

PairLines ==
    { Line("alice", "#a", CmdText),
      Line("alice", "#a", URLA),
      Line("alice", "#a", <<"h", "i">>) }

PairOutcomes == { [kind |-> "transport"], Resp("r1", ""), Resp("r2", "") }

InitPair ==
    /\ config \in CtlConfigs
    /\ hist = [on |-> TRUE, mode |-> "pair", lines |-> <<>>, events |-> <<>>]
    /\ InitProcess

NextPair ==
    \/ MainValidate
    \/ MainSpawn
    \/ MainWait
    \/ \E n \in Networks : NetSetup(n)
    \/ \E n \in Networks : ConnectSucceed(n)
    \/ \E n \in Networks : AfterConnect(n)
    \/ \E n \in Networks, l \in PairLines : OnPRIVMSG(n, l.nick, l.target, l.text)
    \/ \E i \in 1..Len(tasks) : TaskStart(i)
    \/ \E i \in 1..Len(tasks), o \in PairOutcomes : TaskReturn(i, o)

SpecPair == InitPair /\ [][NextPair]_vars

\* The two-network specification: both network goroutines run, each with its
\* own connection, and a history of the lines and control events is kept.
IsoLines ==
    { Line("alice", "#a", CmdText),
      Line("alice", "#a", URLA) }

InitIso ==
    /\ config = GoodConfig
    /\ hist = [on |-> TRUE, mode |-> "iso", lines |-> <<>>, events |-> <<>>]
    /\ InitProcess

NextIso ==
    \/ MainValidate
    \/ MainSpawn
    \/ MainWait
    \/ \E n \in Networks : NetSetup(n)
    \/ \E n \in Networks : ConnectSucceed(n)
    \/ \E n \in Networks : AfterConnect(n)
    \/ \E n \in Networks : On001(n)
    \/ \E n \in Networks : OnKICK(n, <<"#", "a">>, Nickname)
    \/ \E n \in Networks : OnPING(n, "x")
    \/ \E n \in Networks, l \in IsoLines : OnPRIVMSG(n, l.nick, l.target, l.text)
    \/ \E i \in 1..Len(tasks) : TaskStart(i)
    \/ \E i \in 1..Len(tasks) : TaskReturn(i, Resp("r1", ""))

SpecIso == InitIso /\ [][NextIso]_vars

----------------------------------------------------------------------------
(* Properties *)

Last(s) == s[Len(s)]
Added(old, new) == SubSeq(new, Len(old) + 1, Len(new))

\* C1: no incoming event brings the process down: after every PRIVMSG text
\* with at least one word, every control message and every backend outcome,
\* the process has not panicked and no dispatched task has crashed.
C1_NoCrash ==
    /\ proc # "crashed"
    /\ \A i \in DOMAIN tasks : tasks[i].pc # "panicked"

\* C2: connectWithRetry never gives up: after a failed attempt it sleeps and
\* attempts again, and the only way it returns is with a nil error right
\* after an attempt that connected.
C2_NeverGivesUp ==
    [][\A n \in Networks :
          /\ netpc[n] = "sleep" => netpc'[n] \in {"sleep", "connect"}
          /\ netpc[n] = "connect" => netpc'[n] \in {"connect", "sleep", "returned"}
          /\ (netpc[n] # "returned" /\ netpc'[n] = "returned") =>
                /\ netpc[n] = "connect"
                /\ cwrRet'[n] = "nil"
                /\ ~connUp[n] /\ connUp'[n]]_vars

\* a further attempt is being made after four consecutive failures
C2_Witness == \E n \in Networks : netpc[n] = "connect" /\ fails[n] >= 4

\* C3: the delay slept after the k-th consecutive failed attempt is
\* min(2^(k-1), 300) seconds, never below 1 s and never above 300 s.
C3_BackoffSchedule ==
    \A n \in Networks :
        /\ netpc[n] = "sleep" =>
              /\ fails[n] >= 1
              /\ backoff[n] = Min(2 ^ (fails[n] - 1), 300)
        /\ (netpc[n] = "connect" /\ fails[n] >= 1) =>
              lastSleep[n] = Min(2 ^ (fails[n] - 1), 300)
        /\ netpc[n] \in {"connect", "sleep"} => (backoff[n] >= 1 /\ backoff[n] <= 300)

\* the ceiling has been reached: the delay slept after the 10th failure is 300 s
C3_Witness ==
    \E n \in Networks : netpc[n] = "connect" /\ fails[n] = 10 /\ lastSleep[n] = 300

\* C4: when an established connection is lost, the network goroutine is back
\* in connectWithRetry with the backoff at its base value of 1 s.
C4_ReconnectsThroughRetry ==
    [][\A n \in Networks :
          (connUp[n] /\ ~connUp'[n]) => (netpc'[n] = "connect" /\ backoff'[n] = 1)]_vars

\* C5: with a valid configuration no network goroutine ever ends, and the
\* process does not exit while a connection is up.
C5_NetworkTasksNeverEnd ==
    /\ \A n \in Declared(config) : netpc[n] # "done"
    /\ proc = "exited" => \A n \in Networks : ~connUp[n]

\* C6: every registration-complete event sends exactly one JOIN per configured
\* channel, in configured order, each name with the '#' prefix: a name that
\* has it is joined unchanged, any other as '#' + name; nothing else is sent
\* and no goroutine is started.
C6_JoinsOnRegistration ==
    [][\A n \in Networks :
          On001(n) =>
             LET chans == config.Networks[n].Channels
                 new   == Added(out[n], out'[n])
             IN  /\ SubSeq(out'[n], 1, Len(out[n])) = out[n]
                 /\ Len(new) = Len(chans)
                 /\ \A k \in 1..Len(chans) :
                       /\ new[k].cmd = "JOIN"
                       /\ Head(new[k].chan) = "#"
                       /\ Head(chans[k]) = "#" => new[k].chan = chans[k]
                       /\ Head(chans[k]) # "#" => new[k].chan = <<"#">> \o chans[k]
                 /\ tasks' = tasks]_vars

\* the channels were joined at the first registration and again after a reconnect
C6_Witness ==
    /\ ndisc = 1
    /\ Declared(config) = {"n1"}
    /\ out["n1"] = << [cmd |-> "JOIN", chan |-> <<"#", "a">>], [cmd |-> "JOIN", chan |-> <<"#", "b">>],
                      [cmd |-> "JOIN", chan |-> <<"#", "a">>], [cmd |-> "JOIN", chan |-> <<"#", "b">>] >>

\* C7: a PING with payload p is answered inside its callback with exactly
\* one 'PONG :' + p; the callback sends nothing else, starts no goroutine and
\* leaves the dispatched tasks as they are.
C7_PongEchoesPayload ==
    [][\A n \in Networks, p \in PingPayloads :
          OnPING(n, p) =>
             /\ out'[n] = Append(out[n], [cmd |-> "RAW", line |-> "PONG :" \o p])
             /\ \A m \in Networks \ {n} : out'[m] = out[m]
             /\ tasks' = tasks]_vars

\* a PING was answered while a backend call of the same connection was in flight
C7_Witness ==
    \E n \in Networks :
        /\ InFlight(n) # {}
        /\ out[n] # <<>>
        /\ Last(out[n]) = [cmd |-> "RAW", line |-> "PONG :abc123"]

\* C8: pending backend calls never hold up the connection: whenever the
\* connection is up (and the run's event budget is not used up), the callbacks
\* for a further command line and for a keepalive can run, however many
\* dispatched tasks have not returned.
C8_PendingCallsDoNotBlock ==
    \A n \in Networks :
        (proc = "running" /\ connUp[n] /\ nev < EventBudget /\ handlers[n] = AllTags) =>
            /\ \A p \in PingPayloads : ENABLED OnPING(n, p)
            /\ \A l \in {x \in SysLines : Head(x.text) = "."} :
                  ENABLED OnPRIVMSG(n, l.nick, l.target, l.text)

\* two backend calls are in flight and a keepalive received after their
\* dispatch has been answered
C8_Witness ==
    \E n \in Networks :
        /\ Cardinality(InFlight(n)) >= 2
        /\ out[n] # <<>>
        /\ Last(out[n]).cmd = "RAW"

\* C9: every dispatched command task that has run carries the request
\* command = first token after the prefix, args = the remaining tokens joined
\* with single spaces, and every command line starts exactly one task.
C9_CommandRequest ==
    \A i \in DOMAIN tasks :
        (tasks[i].kind = "cmd" /\ tasks[i].pc # "spawned") =>
            LET f == Fields(tasks[i].arg)
            IN  /\ Len(f) >= 1
                /\ tasks[i].req = [sent |-> TRUE, Command |-> f[1], Args |-> JoinSp(Tail(f)),
                                   Channel |-> tasks[i].target, User |-> tasks[i].src]

\* C10: one incoming line starts at most one dispatched task.
C10_AtMostOneLinkDispatch ==
    [][Len(tasks') <= Len(tasks) + 1]_vars

----------------------------------------------------------------------------
(* Properties of the line specification *)

\* the tasks started by the k-th recorded line
TasksOf(k) ==
    (hist.lines[k].ntasks + 1) ..
        (IF k < Len(hist.lines) THEN hist.lines[k + 1].ntasks ELSE Len(tasks))

\* the recorded line that started task i
LineOf(i) == hist.lines[CHOOSE k \in DOMAIN hist.lines : i \in TasksOf(k)]

IsCommandText(text) == HasPrefix(text, <<".">>) /\ Len(text) > 1

\* C11: a line that begins with '.' and is longer than one character starts
\* command tasks only: at no point of the run, whatever the command call
\* returned, is there a title task or a title request for it, even when its
\* words are valid http URLs.
C11_CommandPrecedence ==
    \A k \in DOMAIN hist.lines :
        IsCommandText(hist.lines[k].text) =>
            \A i \in TasksOf(k) :
                /\ tasks[i].kind = "cmd"
                /\ tasks[i].req.sent => "URL" \notin DOMAIN tasks[i].req

\* the command of the line '.a http://a' was answered and no title task exists
C11_Witness ==
    /\ Len(hist.lines) = 1
    /\ hist.lines[1].text = <<".", "a", " ">> \o URLA
    /\ Len(tasks) = 1
    /\ tasks[1].pc = "done"
    /\ tasks[1].outcome = Resp("res", "")
    /\ tasks[1].req.Args = URLA

\* C12: a line whose text begins with '*' starts no task, whoever sent it and
\* however many of its words are valid links; a run that received only such
\* lines has made no backend call and sent no message.
C12_StarLinesIgnored ==
    /\ \A k \in DOMAIN hist.lines :
          HasPrefix(hist.lines[k].text, <<"*">>) => TasksOf(k) = {}
    /\ (\A k \in DOMAIN hist.lines : HasPrefix(hist.lines[k].text, <<"*">>)) =>
          /\ tasks = <<>>
          /\ \A n \in Networks : out[n] = <<>>

\* a line '* <link> <link> <link>' was delivered and nothing was started or sent
C12_Witness ==
    /\ Len(hist.lines) = 1
    /\ hist.lines[1].nick = "bob"
    /\ hist.lines[1].text = <<"*", " ">> \o URLA \o <<" ">> \o URLA \o <<" ">> \o URLB
    /\ tasks = <<>>
    /\ out["n1"] = <<>>

\* C13: a PRIVMSG whose sender nick is 'Sinkko' starts no task, whatever its
\* text; a run that received only such lines has made no backend call and
\* sent no message.
C13_ExcludedSenderIgnored ==
    /\ \A k \in DOMAIN hist.lines :
          hist.lines[k].nick = "Sinkko" => TasksOf(k) = {}
    /\ (\A k \in DOMAIN hist.lines : hist.lines[k].nick = "Sinkko") =>
          /\ tasks = <<>>
          /\ \A n \in Networks : out[n] = <<>>

\* Sinkko's line '.a http://a', a command and a link, was delivered and
\* nothing was started or sent
C13_Witness ==
    /\ Len(hist.lines) = 1
    /\ hist.lines[1].nick = "Sinkko"
    /\ hist.lines[1].text = <<".", "a", " ">> \o URLA
    /\ tasks = <<>>
    /\ out["n1"] = <<>>

\* the tasks whose gateway call has returned
Returned == {i \in DOMAIN tasks : tasks[i].pc = "done" /\ tasks[i].ret # NoRet}

\* C14: for the command call and the title call alike, a decoded response
\* with a non-empty errorMessage makes the call return an error and the empty
\* text, whatever its result/title field holds; the result/title is returned
\* only when errorMessage is empty.
C14_ErrorMessageWins ==
    \A i \in Returned :
        LET o == tasks[i].outcome
        IN  /\ (o.kind = "resp" /\ o.errorMessage # "") => tasks[i].ret = <<"", TRUE>>
            /\ (o.kind = "resp" /\ o.errorMessage = "") => tasks[i].ret = <<o.result, FALSE>>
            /\ tasks[i].ret[1] # "" => (o.kind = "resp" /\ o.errorMessage = "")

\* a title call answered {title: "res", errorMessage: "boom"} returned an error
C14_Witness ==
    \E i \in Returned :
        /\ tasks[i].kind = "url"
        /\ tasks[i].outcome = Resp("res", "boom")
        /\ tasks[i].ret = <<"", TRUE>>

\* C15: a response with result/title and errorMessage both empty makes the
\* call return the empty string and no error, and the task sends nothing.
C15_EmptyResultIsSilent ==
    \A i \in Returned :
        tasks[i].outcome = Resp("", "") =>
            /\ tasks[i].ret = <<"", FALSE>>
            /\ tasks[i].reply = <<>>

\* a command call answered {result: "", errorMessage: ""} has returned and the
\* connection has sent nothing
C15_Witness ==
    /\ Len(tasks) = 1
    /\ 1 \in Returned
    /\ tasks[1].kind = "cmd"
    /\ tasks[1].outcome = Resp("", "")
    /\ out["n1"] = <<>>

\* C16: the step in which a gateway call returns an error (request
\* construction, transport, unreadable or undecodable body, non-empty
\* errorMessage) sends nothing on any connection and leaves the connections
\* and the network goroutines as they were.
C16_FailureIsSilent ==
    [][\A i \in DOMAIN tasks :
          (tasks[i].pc # "done" /\ tasks'[i].pc = "done"
             /\ tasks'[i].ret # NoRet /\ tasks'[i].ret[2]) =>
                /\ tasks'[i].reply = <<>>
                /\ out' = out
                /\ connUp' = connUp
                /\ netpc' = netpc
                /\ handlers' = handlers]_vars

\* both title calls of one line failed, one in transport and one in decoding,
\* and nothing was sent
C16_Witness ==
    /\ Len(tasks) = 2
    /\ Returned = {1, 2}
    /\ tasks[1].outcome.kind = "transport"
    /\ tasks[2].outcome.kind = "decode"
    /\ out["n1"] = <<>>

\* C17: a task whose call returned a non-empty text and no error has sent
\* exactly one message, to the target (first argument) of the line that
\* started it: the result as it is for a command, 'Title: ' + title for a
\* link; the Channel of its request is that same target.
C17_ReplyOnSuccess ==
    \A i \in Returned :
        (~tasks[i].ret[2] /\ tasks[i].ret[1] # "") =>
            /\ tasks[i].reply =
                  << [cmd |-> "PRIVMSG", target |-> LineOf(i).target,
                      text |-> IF tasks[i].kind = "cmd" THEN tasks[i].ret[1]
                               ELSE "Title: " \o tasks[i].ret[1]] >>
            /\ tasks[i].req.Channel = LineOf(i).target

\* the two links of one line were both answered: two 'Title: res' messages
\* went to the channel of the line
C17_Witness ==
    /\ Returned = {1, 2}
    /\ out["n1"] = << [cmd |-> "PRIVMSG", target |-> "#a", text |-> "Title: res"],
                      [cmd |-> "PRIVMSG", target |-> "#a", text |-> "Title: res"] >>

\* C18: the reply to a command or a link goes into the conversation the line
\* came from: to the channel for a line sent in a channel, to the sender for
\* a line sent directly to the bot (target = the bot's nickname).
C18_ReplyToConversation ==
    \A i \in Returned :
        tasks[i].reply # <<>> =>
            tasks[i].reply[1].target =
                IF LineOf(i).target = config.Nickname THEN LineOf(i).nick
                ELSE LineOf(i).target

\* C19 as stated: every gateway call that has returned, whatever its outcome,
\* made exactly one outbound request.
C19_ExactlyOneRequest ==
    \A i \in Returned : tasks[i].nreq = 1

\* C19, amended: a gateway call makes at most one outbound request: exactly
\* one when the request could be constructed from the configured endpoint,
\* none when its construction failed; a call that has returned, failed or
\* not, is never made again.
C19_AtMostOneRequest ==
    [][\A i \in DOMAIN tasks' :
          LET t == tasks'[i]
          IN  /\ t.nreq <= 1
              /\ t.pc = "inflight" => t.nreq = 1
              /\ (t.pc = "done" /\ t.ret # NoRet) =>
                    t.nreq = IF NewRequestFails(EndpointOf(t)) THEN 0 ELSE 1
              /\ (i \in DOMAIN tasks /\ tasks[i].pc = "done") => t = tasks[i]]_vars

\* a call failed in transport and its task ended after that one request
C19_Witness ==
    \E i \in Returned :
        /\ tasks[i].outcome.kind = "transport"
        /\ tasks[i].nreq = 1
        /\ tasks[i].reply = <<>>

----------------------------------------------------------------------------
(* Properties of the system specification, continued *)

\* C20: every nickname asked for after a nickname-collision (433) event is
\* the configured nickname followed by exactly one '_', however many such
\* events came before, and the configured nickname never changes.
C20_NickSuffixOnce ==
    [][/\ config' = config
       /\ \A n \in Networks : \A k \in DOMAIN out'[n] :
             out'[n][k].cmd = "NICK" => out'[n][k].nick = config.Nickname \o "_"]_vars

\* two collisions in a row on one connection: 'bot_' was asked for both times
C20_Witness ==
    \E n \in Networks :
        out[n] = << [cmd |-> "NICK", nick |-> "bot_"], [cmd |-> "NICK", nick |-> "bot_"] >>

----------------------------------------------------------------------------
(* Properties of the control specification *)

\* what the k-th recorded control event sent on its connection
EventOut(k) ==
    LET e == hist.events[k]
        later == {j \in DOMAIN hist.events : j > k /\ hist.events[j].net = e.net}
        upto == IF later = {} THEN Len(out[e.net])
                ELSE hist.events[CHOOSE j \in later : \A i \in later : j <= i].nout
    IN  SubSeq(out[e.net], e.nout + 1, upto)

\* the nickname in use on the connection when the k-th recorded event came:
\* the one last asked for with NICK (the server having accepted it), the
\* configured one when none was asked for
NickAt(k) ==
    LET e == hist.events[k]
        asked == {j \in 1..e.nout : out[e.net][j].cmd = "NICK"}
    IN  IF asked = {} THEN config.Nickname
        ELSE out[e.net][CHOOSE j \in asked : \A i \in asked : i <= j].nick

\* C21: every KICK whose target is the nickname the bot is using on that
\* connection at that time, the renamed one after a nickname collision
\* included, sends exactly one JOIN for the kicked channel, each time it
\* happens; a KICK of anybody else sends nothing.
C21_RejoinsWhenKicked ==
    \A k \in DOMAIN hist.events :
        hist.events[k].tag = "KICK" =>
            EventOut(k) = IF hist.events[k].args[2] = NickAt(k)
                          THEN << JoinMsg(hist.events[k].args[1]) >>
                          ELSE <<>>

\* the channels of network n as the 001 callback joins them
ConfiguredChannels(n) ==
    {NormChannel(config.Networks[n].Channels[k]) : k \in 1..Len(config.Networks[n].Channels)}

\* the channels of the KICK events recorded on network n
KickedFrom(n) ==
    {hist.events[k].args[1] :
        k \in {j \in DOMAIN hist.events : hist.events[j].tag = "KICK" /\ hist.events[j].net = n}}

\* C22: an INVITE sends nothing and starts no task; whatever events came,
\* every channel a JOIN was sent for is a configured channel (with its '#')
\* or a channel of a KICK event.
C22_InviteNeverJoins ==
    /\ \A k \in DOMAIN hist.events : hist.events[k].tag = "INVITE" => EventOut(k) = <<>>
    /\ tasks = <<>>
    /\ \A n \in Declared(config) : \A j \in DOMAIN out[n] :
          out[n][j].cmd = "JOIN" => out[n][j].chan \in ConfiguredChannels(n) \cup KickedFrom(n)

\* registration, then an INVITE, then a KICK of the bot: the joins sent are
\* those of the two configured channels and the rejoin, none for the INVITE
C22_Witness ==
    /\ Len(hist.events) = 3
    /\ hist.events[1].tag = "001"
    /\ hist.events[2].tag = "INVITE"
    /\ hist.events[3].tag = "KICK"
    /\ out["n1"] = << JoinMsg(<<"#", "a">>), JoinMsg(<<"#", "b">>), JoinMsg(<<"#", "a">>) >>

----------------------------------------------------------------------------
(* Properties of the system specification, continued *)

\* one of the four defects of a configuration: no nickname, no command
\* endpoint, no title endpoint, a declared network without channels
Defective(c) ==
    \/ c.Nickname = ""
    \/ c.LambdaCommand = <<>>
    \/ c.LambdaTitle = <<>>
    \/ \E n \in DOMAIN c.Networks : c.Networks[n].Channels = <<>>

\* C23: with a defective configuration validation fails: main never gets
\* past it, and no network goroutine is ever started, connected or served;
\* a network goroutine runs only once main is past the validation.
C23_ValidationGuardsStartup ==
    /\ Defective(config) =>
          /\ mainpc = "validate"
          /\ proc \in {"running", "fatal"}
          /\ \A n \in Networks : netpc[n] = "idle" /\ ~connUp[n] /\ handlers[n] = {}
    /\ (\E n \in Networks : netpc[n] # "idle") => mainpc \in {"wait", "returned"}

\* the process has exited on a configuration whose second network has no channels
C23_Witness ==
    /\ proc = "fatal"
    /\ config.Nickname # "" /\ config.LambdaCommand # <<>> /\ config.LambdaTitle # <<>>
    /\ \E n \in Declared(config) : config.Networks[n].Channels = <<>>

\* texts that are neither a command nor hold a qualifying link: no word, the
\* prefix '.' alone, plain words, and words with the "http" prefix that have
\* no host ('http:', 'http://') or do not parse ('http://a:b')
IgnoredTexts ==
    { <<" ">>,
      <<".">>,
      <<"h", "i">>,
      HTTP \o <<":">>,
      <<"a", " ">> \o HTTP \o <<":", "/", "/">>,
      HTTP \o <<":", "/", "/", "a", ":", "b">> }

\* C25: a line that is neither a command nor holds a qualifying link starts
\* no task; a run that received only such lines has made no backend call and
\* sent no message.
C25_OtherLinesIgnored ==
    /\ \A k \in DOMAIN hist.lines :
          hist.lines[k].text \in IgnoredTexts => TasksOf(k) = {}
    /\ (\A k \in DOMAIN hist.lines : hist.lines[k].text \in IgnoredTexts) =>
          /\ tasks = <<>>
          /\ \A n \in Networks : out[n] = <<>>

\* the line '.' was delivered and nothing was started or sent
C25_Witness ==
    /\ Len(hist.lines) = 1
    /\ hist.lines[1].nick = "alice"
    /\ hist.lines[1].text = <<".">>
    /\ tasks = <<>>
    /\ out["n1"] = <<>>

\* C26: once a network task has built its server address, the address holds
\* the configured server with the configured port when that is non-zero and
\* with port 6667 when the configured port is 0 (the value of an absent key).
C26_DefaultPort ==
    \A n \in Declared(config) :
        netpc[n] \notin {"idle", "setup"} =>
            /\ addr[n][1] = config.Networks[n].Server
            /\ config.Networks[n].Port = 0 => addr[n][2] = 6667
            /\ config.Networks[n].Port # 0 => addr[n][2] = config.Networks[n].Port

\* both network tasks have their address: one with the default port, one with
\* the configured port
C26_Witness ==
    /\ Declared(config) = {"n1", "n2"}
    /\ config.Networks["n1"].Port = 0 /\ config.Networks["n2"].Port = 6697
    /\ addr["n1"] = <<"irc.a", 6667>>
    /\ addr["n2"] = <<"irc.b", 6697>>

\* C27: no variable is written by one network task while another network
\* task can read or write it: no two network tasks are at the same time about
\* to write main's err, or one about to write it and the other about to read it.
C27_NoSharedWrites ==
    \A n, m \in Declared(config) :
        n # m => ~(ErrWriteNext(n) /\ (ErrWriteNext(m) \/ ErrReadNext(m)))

----------------------------------------------------------------------------
(* Properties of the pair specification *)

\* the d-th task started by the k-th recorded line
TaskOfLine(k, d) == tasks[hist.lines[k].ntasks + d]

\* C24: two deliveries of the same line (same text, sender and target) make
\* the same dispatch decision: as many tasks, of the same kind and with the
\* same argument and, once posted, the same request, whatever lines came
\* before and whatever calls were pending.
C24_SameLineSameDispatch ==
    \A k1, k2 \in DOMAIN hist.lines :
        ( /\ hist.lines[k1].text = hist.lines[k2].text
          /\ hist.lines[k1].nick = hist.lines[k2].nick
          /\ hist.lines[k1].target = hist.lines[k2].target ) =>
            /\ Cardinality(TasksOf(k1)) = Cardinality(TasksOf(k2))
            /\ \A d \in 1..Cardinality(TasksOf(k1)) :
                  LET t1 == TaskOfLine(k1, d)
                      t2 == TaskOfLine(k2, d)
                  IN  /\ t1.kind = t2.kind
                      /\ t1.arg = t2.arg
                      /\ t1.target = t2.target
                      /\ t1.src = t2.src
                      /\ (t1.req.sent /\ t2.req.sent) => t1.req = t2.req

\* the same command line came twice, after a link line and while the first
\* command's call was in flight, and both posted the same request
C24_Witness ==
    /\ Len(hist.lines) = 3
    /\ hist.lines[1].text = URLA
    /\ hist.lines[2].text = CmdText
    /\ hist.lines[3].text = CmdText
    /\ Len(tasks) = 3
    /\ tasks[2].pc = "inflight"
    /\ tasks[3].pc = "inflight"
    /\ tasks[2].req = tasks[3].req

\* C28: replies are not ordered by arrival: no reply waits for an earlier
\* call, every call in flight can return and send its reply whatever the
\* state of the calls dispatched before it, so the reply to a later command
\* can be sent before the reply to an earlier one (while the process runs).
C28_NoReplyQueue ==
    \A i \in DOMAIN tasks :
        (proc = "running" /\ tasks[i].pc = "inflight") =>
            \A o \in PairOutcomes : ENABLED TaskReturn(i, o)

\* two commands arrived on #a in the order c1, c2; c1 was answered r1 and c2
\* was answered r2; the channel got reply(c2) first and reply(c1) second
C28_Witness ==
    /\ Len(hist.lines) = 2
    /\ \A k \in {1, 2} : hist.lines[k].text = CmdText /\ hist.lines[k].target = "#a"
    /\ Len(tasks) = 2
    /\ tasks[1].outcome = Resp("r1", "") /\ tasks[2].outcome = Resp("r2", "")
    /\ out["n1"] = << [cmd |-> "PRIVMSG", target |-> "#a", text |-> "r2"],
                      [cmd |-> "PRIVMSG", target |-> "#a", text |-> "r1"] >>

\* C29: there is no ceiling on concurrent backend calls: every command or
\* link line delivered has started its task however many calls were in
\* flight, and a further command line can be delivered while calls are in
\* flight (while the process runs).
C29_NoCeiling ==
    /\ \A k \in DOMAIN hist.lines :
          hist.lines[k].text \in {CmdText, URLA} => Cardinality(TasksOf(k)) = 1
    /\ \A n \in Networks :
          (proc = "running" /\ connUp[n] /\ handlers[n] = AllTags /\ nev < EventBudget) =>
              ENABLED OnPRIVMSG(n, "alice", "#a", CmdText)

\* as many calls are in flight on one connection as lines were delivered, up
\* to the bound, command and link calls among them
C29_Witness ==
    /\ Len(hist.lines) = MaxPairLines
    /\ Cardinality(InFlight("n1")) = MaxPairLines
    /\ \E i, j \in InFlight("n1") : tasks[i].kind = "cmd" /\ tasks[j].kind = "url"

\* C30: each introspection query is answered by exactly one NOTICE to the
\* nick that sent it and by nothing else: VERSION with the fixed
\* identification string, TIME with the time of the answer, PING with the
\* payload of the query unchanged; no backend task is started.
C30_OneNoticePerQuery ==
    /\ \A k \in DOMAIN hist.events :
          LET e    == hist.events[k]
              nick == e.args[1]
              arg  == e.args[2]
              now  == e.args[3]
              body == IF e.tag = "CTCP_VERSION"
                      THEN "VERSION gobotlite - https://github.com/lepinkainen/gobotlite"
                      ELSE IF e.tag = "CTCP_TIME" THEN "TIME " \o now
                      ELSE "PING " \o arg
          IN  e.tag \in {"CTCP_VERSION", "CTCP_TIME", "CTCP_PING"} =>
                  EventOut(k) = << [cmd |-> "RAW",
                                    line |-> "NOTICE " \o nick \o " :\\x01" \o body \o "\\x01"] >>
    /\ tasks = <<>>

\* VERSION and TIME from alice and PING x from bob were answered, each with
\* its one NOTICE
C30_Witness ==
    /\ Len(hist.events) = 3
    /\ hist.events[1].tag = "CTCP_VERSION"
    /\ hist.events[2].tag = "CTCP_TIME"
    /\ hist.events[3].tag = "CTCP_PING" /\ hist.events[3].args[1] = "bob"
    /\ Len(out["n1"]) = 3
    /\ out["n1"][3] = [cmd |-> "RAW", line |-> "NOTICE bob :\\x01PING x\\x01"]

\* C31: in every gateway call the response body is released exactly once by
\* the time the call returns when a response was obtained (body read error,
\* decode error, reported error, success), and never when no response was
\* obtained (request not built, transport failure) or the call has not returned.
C31_BodyReleasedOnce ==
    \A i \in DOMAIN tasks :
        LET t == tasks[i]
        IN  /\ t.pc # "done" => t.closed = 0
            /\ (t.pc = "done" /\ t.outcome.kind \in {"read", "decode", "resp"}) => t.closed = 1
            /\ (t.pc = "done" /\ t.outcome.kind \in {"none", "newrequest", "transport"}) =>
                   t.closed = 0

\* a call whose response could not be decoded has returned with its body
\* released once
C31_Witness ==
    \E i \in DOMAIN tasks :
        /\ tasks[i].pc = "done"
        /\ tasks[i].outcome.kind = "decode"
        /\ tasks[i].closed = 1

----------------------------------------------------------------------------
(* Properties of the two-network specification *)

\* C32: connections are isolated per network: a step in which a control
\* event is handled changes the output of the receiving network only, the
\* PRIVMSG callback itself sends nothing, and a step of a dispatched task
\* sends only on the connection of the network that received its line, where
\* its reply is appended.
C32_ConnectionsIsolated ==
    [][/\ Len(hist'.events) > Len(hist.events) =>
            \A m \in Networks \ {Last(hist'.events).net} : out'[m] = out[m]
       /\ Len(hist'.lines) > Len(hist.lines) => out' = out
       /\ \A i \in DOMAIN tasks :
            tasks'[i].pc # tasks[i].pc =>
                LET recv == LineOf(i).net
                IN  /\ \A m \in Networks \ {recv} : out'[m] = out[m]
                    /\ out'[recv] = out[recv] \o tasks'[i].reply]_vars

\* a command received on n2 was answered on n2 while n1, which answered a
\* keepalive of its own, carries nothing else
C32_Witness ==
    /\ Len(hist.lines) = 1 /\ hist.lines[1].net = "n2"
    /\ Len(hist.events) = 1 /\ hist.events[1].net = "n1" /\ hist.events[1].tag = "PING"
    /\ connUp["n1"] /\ connUp["n2"]
    /\ out["n2"] = << [cmd |-> "PRIVMSG", target |-> "#a", text |-> "r1"] >>
    /\ out["n1"] = << [cmd |-> "RAW", line |-> "PONG :x"] >>

----------------------------------------------------------------------------
(* Further properties of the retry specification *)

\* C33: in connectWithRetry attempts and sleeps strictly alternate: the call
\* starts with an attempt, a failed attempt is followed by a sleep, a sleep
\* is entered only from a failed attempt and is followed by the next attempt,
\* and the attempt that connects is followed by the return, not by a sleep.
C33_AttemptsAndSleepsAlternate ==
    [][\A n \in Networks :
          /\ (netpc[n] = "setup" /\ netpc'[n] # "setup") =>
                (netpc'[n] = "connect" /\ lastSleep'[n] = 0)
          /\ (netpc[n] = "connect" /\ fails'[n] = fails[n] + 1) => netpc'[n] = "sleep"
          /\ (netpc[n] # "sleep" /\ netpc'[n] = "sleep") =>
                (netpc[n] = "connect" /\ fails'[n] = fails[n] + 1 /\ ~connUp'[n])
          /\ (netpc[n] = "sleep" /\ netpc'[n] # "sleep") =>
                (netpc'[n] = "connect" /\ lastSleep'[n] >= Second /\ fails'[n] = fails[n])
          /\ (netpc[n] = "connect" /\ ~connUp[n] /\ connUp'[n]) => netpc'[n] = "returned"]_vars

\* two attempts failed, each was followed by its sleep (1 s, then 2 s), and
\* the third attempt is about to be made
C33_Witness ==
    \E n \in Networks : netpc[n] = "connect" /\ fails[n] = 2 /\ lastSleep[n] = 2 * Second

----------------------------------------------------------------------------
(* Further properties of the system specification *)

\* C34: in each network task the handlers of registration, join
\* confirmation, nickname collision, the three CTCP queries, kick, invite,
\* PRIVMSG and PING are all registered before the first connect attempt, and
\* stay registered: a task that is at or past its first attempt, or whose
\* connection is up, has every handler.
C34_HandlersBeforeConnect ==
    \A n \in Networks :
        (netpc[n] \in {"connect", "sleep", "returned", "loop", "done"} \/ connUp[n]) =>
            handlers[n] = {"001", "366", "433", "CTCP_VERSION", "CTCP_TIME", "CTCP_PING",
                           "KICK", "INVITE", "PRIVMSG", "PING"}

\* a connection is up in its event loop, an event has been handled on it, and
\* its ten handlers are in place
C34_Witness ==
    \E n \in Networks :
        /\ connUp[n] /\ netpc[n] = "loop"
        /\ nev = 1 /\ out[n] # <<>>
        /\ Cardinality(handlers[n]) = 10

----------------------------------------------------------------------------
(* Termination with no networks *)

\* a configuration with nickname and both endpoints set that declares no network
NoNetworksDeclared(c) ==
    /\ DOMAIN c.Networks = {}
    /\ c.Nickname # "" /\ c.LambdaCommand # <<>> /\ c.LambdaTitle # <<>>

\* C35: a configuration that declares no networks, with nickname and both
\* endpoints set, passes validation (the process never ends with the fatal
\* exit), starts no network task, can return from the wait as soon as it
\* reaches it, and the process terminates.
C35_NoNetworksTerminates ==
    /\ [](NoNetworksDeclared(config) =>
            /\ proc # "fatal"
            /\ \A n \in Networks : netpc[n] = "idle" /\ ~connUp[n]
            /\ mainpc = "wait" => ENABLED MainWait)
    /\ (NoNetworksDeclared(config) ~> (proc = "exited" /\ mainpc = "returned"))

\* the process has ended by returning from main with no network declared
C35_Witness ==
    /\ NoNetworksDeclared(config)
    /\ proc = "exited" /\ mainpc = "returned"
    /\ \A n \in Networks : netpc[n] = "idle"

====
